---- MODULE Spec2Model ----
(***************************************************************************)
(* Model of countryrisk-app.py: the batch pipeline that fetches five World *)
(* Bank indicators, merges them into one table, assigns PMI values,        *)
(* computes a weighted risk score and classifies it into five levels.      *)
(*                                                                         *)
(* Numbers.  Python floats are modelled as exact fixed-point decimals:     *)
(*   - percentage indicators are whole percentage points,                  *)
(*   - FX_Reserves is counted in units of 10^6 US$,                        *)
(*   - a score is counted in units of 10^-4 (Unit per 1.0),                *)
(*   - NaN (pandas' null) is a value of its own that poisons arithmetic    *)
(*     and makes every comparison false.                                   *)
(* IEEE-754 rounding of the individual products and sums is not modelled.  *)
(***************************************************************************)
EXTENDS Integers, Sequences, FiniteSets, TLC

\* pc        : the statement the module-level script is at (or, for a function called
\*             on its own, whether it has been called)
\* data_dict : metric -> mapping country -> value, filled by the fetch loop
\* df        : the table, country -> (column -> value); columns are added step by step
\* arg, ret  : argument and return value of a function called on its own
VARIABLES pc, data_dict, df, arg, ret

vars == <<pc, data_dict, df, arg, ret>>

-----------------------------------------------------------------------------
(* Bounds of the model *)

\* indicator values reported by the Indicator Source: 1..MaxVal multiples of a sample value
MaxVal == 2
\* scores handed to classify_risk directly range over -MaxScore .. MaxScore (in 0.1 steps)
MaxScore == 10
\* percentage indicators of the rows handed to compute_risk range over 0..MaxPct
MaxPct == 5
\* inflation values of the rows used to compare two scores range over 0..MaxInfl
MaxInfl == 21

-----------------------------------------------------------------------------
(* Numbers: a float is either a number or NaN *)

\* score units per 1.0
Unit == 10^4

Num(n) == [nan |-> FALSE, v |-> n]

NaN == [nan |-> TRUE, v |-> 0]

\* float addition: NaN propagates
Add(a, b) == IF a.nan \/ b.nan THEN NaN ELSE Num(a.v + b.v)

\* float multiplication by a (non-NaN) weight w
Mul(a, w) == IF a.nan THEN NaN ELSE Num(a.v * w)

\* a > b on floats: false when either side is NaN
Gt(a, b) == ~a.nan /\ ~b.nan /\ a.v > b.v

Le_nan_true(a, b) == a.nan \/ b.nan \/ a.v <= b.v

\* a <= b on floats: false when either side is NaN
Le(a, b) == ~a.nan /\ ~b.nan /\ a.v <= b.v

-----------------------------------------------------------------------------
(* Step 1: indicators and fetch_indicator *)

indicators == << [metric |-> "GDP_Growth",         code |-> "NY.GDP.MKTP.KD.ZG"],
                 [metric |-> "Inflation_Rate",     code |-> "FP.CPI.TOTL.ZG"],
                 [metric |-> "Unemployment_Rate",  code |-> "SL.UEM.TOTL.ZS"],
                 [metric |-> "FX_Reserves",        code |-> "FI.RES.TOTL.CD"],
                 [metric |-> "Gov_Budget_Balance", code |-> "GC.BAL.CASH.GD.ZS"] >>

Metrics == {indicators[i].metric : i \in 1..Len(indicators)}

\* JSON null
None == << >>

\* a JSON number
Some(n) == << n >>

fetch_indicator_keep_null(data) ==
    LET RECURSIVE build(_)
        build(n) ==
            IF n = 0 THEN << >>
            ELSE LET e == data[n]
                     m == build(n - 1)
                     k == e.country.value
                     val == IF e.value # None THEN Num(e.value[1]) ELSE NaN
                 IN [c \in (DOMAIN m) \cup {k} |-> IF c = k THEN val ELSE m[c]]
    IN build(Len(data))

\* {entry['country']['value']: entry['value'] for entry in data if entry['value'] is not None}
fetch_indicator(data) ==
    LET RECURSIVE build(_)
        build(n) ==
            IF n = 0 THEN << >>
            ELSE LET e == data[n]
                     m == build(n - 1)
                     k == e.country.value
                 IN IF e.value # None
                    THEN [c \in (DOMAIN m) \cup {k} |-> IF c = k THEN Num(e.value[1]) ELSE m[c]]
                    ELSE m
    IN build(Len(data))

-----------------------------------------------------------------------------
(* Step 1, continued: the merged table *)

\* the countries one mapping holds
Keys(m) == DOMAIN m

DataFrame_inner(dd) ==
    [c \in {k \in UNION {Keys(dd[m]) : m \in DOMAIN dd} : \A m \in DOMAIN dd : k \in Keys(dd[m])} |->
        [m \in DOMAIN dd |-> dd[m][c]]]

\* pd.DataFrame(data_dict), index named Country and reset: one row per country of
\* any mapping, one column per metric, NaN where the metric's mapping lacks the country
\* (the row order pandas picks is not modelled; the steps below run row by row, and
\* on a table without rows they add their columns to no row)
DataFrame(dd) ==
    [c \in UNION {Keys(dd[m]) : m \in DOMAIN dd} |->
        [m \in DOMAIN dd |-> IF c \in Keys(dd[m]) THEN dd[m][c] ELSE NaN]]

-----------------------------------------------------------------------------
(* Step 2: PMI assignment *)

pmi_data ==
    [c \in {"United States", "China", "Germany"} |->
        CASE c = "United States" -> [Manufacturing_PMI |-> 52, Services_PMI |-> 51]
          [] c = "China"         -> [Manufacturing_PMI |-> 49, Services_PMI |-> 48]
          [] c = "Germany"       -> [Manufacturing_PMI |-> 47, Services_PMI |-> 49]]

assign_pmi_swapped(country) ==
    LET pmi == IF country \in DOMAIN pmi_data
               THEN pmi_data[country]
               ELSE [Manufacturing_PMI |-> 50, Services_PMI |-> 50]
    IN << pmi.Services_PMI, pmi.Manufacturing_PMI >>

\* pmi_data.get(country, {50, 50}) as the pair (Manufacturing_PMI, Services_PMI)
assign_pmi(country) ==
    LET pmi == IF country \in DOMAIN pmi_data
               THEN pmi_data[country]
               ELSE [Manufacturing_PMI |-> 50, Services_PMI |-> 50]
    IN << pmi.Manufacturing_PMI, pmi.Services_PMI >>

\* df[['Manufacturing_PMI', 'Services_PMI']] = df['Country'].apply(assign_pmi)
ApplyPMI(frame) ==
    [c \in DOMAIN frame |->
        frame[c] @@ ("Manufacturing_PMI" :> Num(assign_pmi(c)[1]))
                 @@ ("Services_PMI" :> Num(assign_pmi(c)[2]))]

-----------------------------------------------------------------------------
(* Step 3: the risk score *)

\* weights, in score units per unit of the field
W_GDP == -4000
W_Inflation == 4000
W_Unemployment == 3000
\* -0.1 / 1e9 per US$ is -10^-4 per 10^6 US$
W_FX == -1
W_Budget == -2000
\* the PMI step terms
PMI_Threshold == 50
PMI_Above == -2000
PMI_Else == 3000

compute_risk_ge(row) ==
    LET s1 == Add(Num(0), Mul(row.GDP_Growth, W_GDP))
        s2 == Add(s1, Mul(row.Inflation_Rate, W_Inflation))
        s3 == Add(s2, Mul(row.Unemployment_Rate, W_Unemployment))
        s4 == Add(s3, Mul(row.FX_Reserves, W_FX))
        s5 == Add(s4, Mul(row.Gov_Budget_Balance, W_Budget))
        s6 == Add(s5, IF Gt(row.Manufacturing_PMI, Num(PMI_Threshold - 1))
                      THEN Num(PMI_Above) ELSE Num(PMI_Else))
        s7 == Add(s6, IF Gt(row.Services_PMI, Num(PMI_Threshold - 1))
                      THEN Num(PMI_Above) ELSE Num(PMI_Else))
    IN s7

compute_risk_fx_sign(row) ==
    LET s1 == Add(Num(0), Mul(row.GDP_Growth, W_GDP))
        s2 == Add(s1, Mul(row.Inflation_Rate, W_Inflation))
        s3 == Add(s2, Mul(row.Unemployment_Rate, W_Unemployment))
        s4 == Add(s3, Mul(row.FX_Reserves, -W_FX))
        s5 == Add(s4, Mul(row.Gov_Budget_Balance, W_Budget))
        s6 == Add(s5, IF Gt(row.Manufacturing_PMI, Num(PMI_Threshold))
                      THEN Num(PMI_Above) ELSE Num(PMI_Else))
        s7 == Add(s6, IF Gt(row.Services_PMI, Num(PMI_Threshold))
                      THEN Num(PMI_Above) ELSE Num(PMI_Else))
    IN s7

compute_risk(row) ==
    LET s1 == Add(Num(0), Mul(row.GDP_Growth, W_GDP))
        s2 == Add(s1, Mul(row.Inflation_Rate, W_Inflation))
        s3 == Add(s2, Mul(row.Unemployment_Rate, W_Unemployment))
        s4 == Add(s3, Mul(row.FX_Reserves, W_FX))
        s5 == Add(s4, Mul(row.Gov_Budget_Balance, W_Budget))
        s6 == Add(s5, IF Gt(row.Manufacturing_PMI, Num(PMI_Threshold))
                      THEN Num(PMI_Above) ELSE Num(PMI_Else))
        s7 == Add(s6, IF Gt(row.Services_PMI, Num(PMI_Threshold))
                      THEN Num(PMI_Above) ELSE Num(PMI_Else))
    IN s7

ApplyScore_dropna(frame) ==
    [c \in {k \in DOMAIN frame : ~compute_risk(frame[k]).nan} |->
        frame[c] @@ ("Risk_Score" :> compute_risk(frame[c]))]

\* df['Risk_Score'] = df.apply(compute_risk, axis=1)
ApplyScore(frame) ==
    [c \in DOMAIN frame |-> frame[c] @@ ("Risk_Score" :> compute_risk(frame[c]))]

-----------------------------------------------------------------------------
(* Step 4: the risk level *)

classify_risk_strict(score) ==
    IF ~Le(Num(0), score) THEN "Very_Low"
    ELSE IF ~Le(Num(2 * Unit), score) THEN "Low"
    ELSE IF ~Le(Num(5 * Unit), score) THEN "Moderate"
    ELSE IF ~Le(Num(8 * Unit), score) THEN "High"
    ELSE "Very_High"

classify_risk_swapped(score) ==
    IF Le(score, Num(0)) THEN "Very_Low"
    ELSE IF Le(score, Num(2 * Unit)) THEN "Low"
    ELSE IF Le(score, Num(5 * Unit)) THEN "High"
    ELSE IF Le(score, Num(8 * Unit)) THEN "Moderate"
    ELSE "Very_High"

classify_risk(score) ==
    IF Le(score, Num(0)) THEN "Very_Low"
    ELSE IF Le(score, Num(2 * Unit)) THEN "Low"
    ELSE IF Le(score, Num(5 * Unit)) THEN "Moderate"
    ELSE IF Le(score, Num(8 * Unit)) THEN "High"
    ELSE "Very_High"

\* df['Risk_Level'] = df['Risk_Score'].apply(classify_risk)
ApplyLevel(frame) ==
    [c \in DOMAIN frame |-> frame[c] @@ ("Risk_Level" :> classify_risk(frame[c].Risk_Score))]

-----------------------------------------------------------------------------
(* The inputs *)

\* the countries the Indicator Source reports on: one with a pmi_data entry, one without
Countries == {"United States", "France"}

\* a reported value of each metric (percentage points; FX_Reserves in 10^6 US$)
Sample(metric) ==
    CASE metric = "GDP_Growth"         -> 2
      [] metric = "Inflation_Rate"     -> 3
      [] metric = "Unemployment_Rate"  -> 5
      [] metric = "FX_Reserves"        -> 10000
      [] metric = "Gov_Budget_Balance" -> -2

Values(metric) == {Sample(metric) * k : k \in 1..MaxVal}

\* the entries of response.json()[1]: entry['country']['value'] and entry['value']
Entries(cs, vals) ==
    [country : [value : cs], value : {None} \cup {Some(v) : v \in vals}]

\* the data lists the API returns: one entry per country of the single requested year
Responses(cs, vals) ==
    {data \in UNION {[1..n -> Entries(cs, vals)] : n \in 0..Cardinality(cs)} :
        \A i, j \in DOMAIN data : data[i].country.value = data[j].country.value => i = j}

-----------------------------------------------------------------------------
(* The pipeline, module level code of countryrisk-app.py *)

Init ==
    /\ pc = "fetch"
    /\ data_dict = << >>
    /\ df = << >>
    /\ arg = << >>
    /\ ret = << >>

\* for metric, code in indicators.items(): data_dict[metric] = fetch_indicator(code)
FetchNext ==
    /\ pc = "fetch"
    /\ LET k == Cardinality(DOMAIN data_dict) + 1
           metric == indicators[k].metric
       IN /\ k <= Len(indicators)
          /\ \E data \in Responses(Countries, Values(metric)) :
                data_dict' = data_dict @@ (metric :> fetch_indicator(data))
          /\ pc' = IF k = Len(indicators) THEN "frame" ELSE "fetch"
    /\ UNCHANGED <<df, arg, ret>>

BuildFrame ==
    /\ pc = "frame"
    /\ df' = DataFrame(data_dict)
    /\ pc' = "pmi"
    /\ UNCHANGED <<data_dict, arg, ret>>

AssignPMI ==
    /\ pc = "pmi"
    /\ df' = ApplyPMI(df)
    /\ pc' = "score"
    /\ UNCHANGED <<data_dict, arg, ret>>

ComputeScores ==
    /\ pc = "score"
    /\ df' = ApplyScore(df)
    /\ pc' = "classify"
    /\ UNCHANGED <<data_dict, arg, ret>>

ClassifyLevels ==
    /\ pc = "classify"
    /\ df' = ApplyLevel(df)
    /\ pc' = "done"
    /\ UNCHANGED <<data_dict, arg, ret>>

Next ==
    \/ FetchNext
    \/ BuildFrame
    \/ AssignPMI
    \/ ComputeScores
    \/ ClassifyLevels

Spec == Init /\ [][Next]_vars

-----------------------------------------------------------------------------
(* classify_risk applied to one score *)

ScoreInputs ==
    {Num(t * (Unit \div 10) + d) : t \in (-10 * MaxScore)..(10 * MaxScore), d \in {-1, 0, 1}}

InitClassify ==
    /\ pc = "call_classify"
    /\ arg \in ScoreInputs
    /\ ret = << >>
    /\ data_dict = << >>
    /\ df = << >>

CallClassify ==
    /\ pc = "call_classify"
    /\ ret' = << classify_risk(arg) >>
    /\ pc' = "classified"
    /\ UNCHANGED <<arg, data_dict, df>>

NextClassify == CallClassify

SpecClassify == InitClassify /\ [][NextClassify]_vars

-----------------------------------------------------------------------------
(* compute_risk, then classify_risk, applied to one fully populated row *)

PMI_Inputs == {48, 50, 52}

Row(g, i, u, fx, b, m, s) ==
    [GDP_Growth |-> Num(g), Inflation_Rate |-> Num(i), Unemployment_Rate |-> Num(u),
     FX_Reserves |-> Num(fx), Gov_Budget_Balance |-> Num(b),
     Manufacturing_PMI |-> Num(m), Services_PMI |-> Num(s)]

FullRows ==
    {Row(g, i, u, fx, b, m, s) :
        g \in {-2, 0, 2}, i \in 0..MaxPct, u \in 0..MaxPct, fx \in {0, 10000},
        b \in {-2, 0, 2}, m \in PMI_Inputs, s \in PMI_Inputs}

InitScore ==
    /\ pc = "call_score"
    /\ arg \in FullRows
    /\ ret = << >>
    /\ data_dict = << >>
    /\ df = << >>

CallCompute ==
    /\ pc = "call_score"
    /\ ret' = << compute_risk(arg) >>
    /\ pc' = "scored"
    /\ UNCHANGED <<arg, data_dict, df>>

CallClassifyScore ==
    /\ pc = "scored"
    /\ ret' = << ret[1], classify_risk(ret[1]) >>
    /\ pc' = "levelled"
    /\ UNCHANGED <<arg, data_dict, df>>

NextScore ==
    \/ CallCompute
    \/ CallClassifyScore

SpecScore == InitScore /\ [][NextScore]_vars

-----------------------------------------------------------------------------
(* compute_risk, then classify_risk, applied to two rows *)

\* rows whose scores are 0.4 * i + 0.3 * u - d * 10^-4
PairRows ==
    {Row(0, i, u, 6000 + d, 0, 50, 50) : i \in 0..MaxInfl, u \in {0, 2}, d \in {-1, 0, 1}}

InitPair ==
    /\ pc = "call_pair"
    /\ arg \in PairRows \X PairRows
    /\ ret = << >>
    /\ data_dict = << >>
    /\ df = << >>

ComputePair ==
    /\ pc = "call_pair"
    /\ ret' = << compute_risk(arg[1]), compute_risk(arg[2]) >>
    /\ pc' = "pair_scored"
    /\ UNCHANGED <<arg, data_dict, df>>

ClassifyPair ==
    /\ pc = "pair_scored"
    /\ ret' = << ret[1], ret[2], classify_risk(ret[1]), classify_risk(ret[2]) >>
    /\ pc' = "pair_levelled"
    /\ UNCHANGED <<arg, data_dict, df>>

NextPair ==
    \/ ComputePair
    \/ ClassifyPair

SpecPair == InitPair /\ [][NextPair]_vars

-----------------------------------------------------------------------------
(* fetch_indicator applied to one response *)

FetchCountries == {"United States", "France", "Aruba"}

InitFetch ==
    /\ pc = "call_fetch"
    /\ arg \in Responses(FetchCountries, 1..MaxVal)
    /\ ret = << >>
    /\ data_dict = << >>
    /\ df = << >>

CallFetch ==
    /\ pc = "call_fetch"
    /\ ret' = << fetch_indicator(arg) >>
    /\ pc' = "fetched"
    /\ UNCHANGED <<arg, data_dict, df>>

NextFetch == CallFetch

SpecFetch == InitFetch /\ [][NextFetch]_vars

-----------------------------------------------------------------------------
(* Properties *)

Labels == {"Very_Low", "Low", "Moderate", "High", "Very_High"}

\* the order Very_Low < Low < Moderate < High < Very_High
Rank(level) ==
    CASE level = "Very_Low"  -> 1
      [] level = "Low"       -> 2
      [] level = "Moderate"  -> 3
      [] level = "High"      -> 4
      [] level = "Very_High" -> 5

IndicatorCols ==
    {"GDP_Growth", "Inflation_Rate", "Unemployment_Rate", "FX_Reserves", "Gov_Budget_Balance"}

PMICols == {"Manufacturing_PMI", "Services_PMI"}

\* 0.1 in score units
Tenth == Unit \div 10

\* the five weighted indicator terms of a fully populated row, in score units:
\* -0.4*GDP + 0.4*Inflation + 0.3*Unemployment - 0.1*(FX/1e9) - 0.2*Budget
LinearPart(row) ==
      (-4) * Tenth * row.GDP_Growth.v
    + 4 * Tenth * row.Inflation_Rate.v
    + 3 * Tenth * row.Unemployment_Rate.v
    - (Tenth * row.FX_Reserves.v) \div 1000
    - 2 * Tenth * row.Gov_Budget_Balance.v

\* (pmi > 50 ? -0.2 : 0.3) in score units
PMITerm(pmi) == IF pmi > 50 THEN (-2) * Tenth ELSE 3 * Tenth

ExampleRow == Row(2, 3, 5, 10000, -2, 52, 48)

\* C1: classify_risk(s) is Very_Low for s <= 0, Low for 0 < s <= 2, Moderate for
\* 2 < s <= 5, High for 5 < s <= 8 and Very_High for s > 8; the boundaries 0, 2, 5, 8
\* fall in the lower bucket and the values just above them in the upper one.
C1_ClassifyBuckets ==
    pc = "classified" =>
        LET s == arg.v
            level == ret[1]
        IN /\ (s <= 0) => level = "Very_Low"
           /\ (0 < s /\ s <= 2 * Unit) => level = "Low"
           /\ (2 * Unit < s /\ s <= 5 * Unit) => level = "Moderate"
           /\ (5 * Unit < s /\ s <= 8 * Unit) => level = "High"
           /\ (s > 8 * Unit) => level = "Very_High"
           /\ (s = 0) => level = "Very_Low"
           /\ (s = 1) => level = "Low"
           /\ (s = 2 * Unit) => level = "Low"
           /\ (s = 2 * Unit + 1) => level = "Moderate"
           /\ (s = 5 * Unit) => level = "Moderate"
           /\ (s = 5 * Unit + 1) => level = "High"
           /\ (s = 8 * Unit) => level = "High"
           /\ (s = 8 * Unit + 1) => level = "Very_High"

C1_Witness ==
    /\ pc = "classified"
    /\ arg.v = 8 * Unit + 1
    /\ ret[1] = "Very_High"

\* C2: for a fully populated row compute_risk is the weighted sum of the five
\* indicators plus the two PMI terms; the example row scores 1.4 and is Low.
C2_ScoreFormula ==
    /\ pc \in {"scored", "levelled"} =>
          ret[1] = Num(LinearPart(arg) + PMITerm(arg.Manufacturing_PMI.v)
                                       + PMITerm(arg.Services_PMI.v))
    /\ (pc \in {"scored", "levelled"} /\ arg = ExampleRow) => ret[1] = Num(14 * Tenth)
    /\ (pc = "levelled" /\ arg = ExampleRow) => ret[2] = "Low"

C2_Witness ==
    /\ pc = "levelled"
    /\ arg = ExampleRow
    /\ ret = << Num(14 * Tenth), "Low" >>

\* C3: for fully populated rows the level of the score is one of the five labels,
\* and the level never decreases when the score increases.
C3_LabelsMonotone ==
    pc = "pair_levelled" =>
        /\ ret[3] \in Labels
        /\ ret[4] \in Labels
        /\ ~ret[1].nan /\ ~ret[2].nan
        /\ (ret[1].v <= ret[2].v) => Rank(ret[3]) <= Rank(ret[4])
        /\ (ret[2].v <= ret[1].v) => Rank(ret[4]) <= Rank(ret[3])

C3_Witness ==
    /\ pc = "pair_levelled"
    /\ ret[1].v < ret[2].v
    /\ ret[3] = "Low"
    /\ ret[4] = "High"

\* C4: a PMI of exactly 50, or below 50, adds 0.3 to the score and only a PMI above 50
\* adds -0.2; with both PMIs at 50 the two terms add 0.6 whatever the other fields are.
C4_PMIStrict ==
    pc = "scored" =>
        LET d == ret[1].v - LinearPart(arg)
            m == arg.Manufacturing_PMI.v
            s == arg.Services_PMI.v
        IN /\ (m = 50 /\ s = 50) => d = 6 * Tenth
           /\ (m <= 50 /\ s <= 50) => d = 6 * Tenth
           /\ (m > 50 /\ s <= 50) => d = Tenth
           /\ (m <= 50 /\ s > 50) => d = Tenth
           /\ (m > 50 /\ s > 50) => d = (-4) * Tenth

C4_Witness ==
    /\ pc = "scored"
    /\ arg.Manufacturing_PMI.v = 50
    /\ arg.Services_PMI.v = 50
    /\ arg.GDP_Growth.v # 0
    /\ ret[1].v - LinearPart(arg) = 6 * Tenth

\* C5: after the PMI assignment every row holds its pmi_data entry verbatim, or
\* (50, 50) when the country has no entry, and neither PMI value is null.
C5_PMIAssigned ==
    pc \in {"score", "classify", "done"} =>
        \A c \in DOMAIN df :
            /\ ~df[c].Manufacturing_PMI.nan
            /\ ~df[c].Services_PMI.nan
            /\ (c = "United States") =>
                  (df[c].Manufacturing_PMI.v = 52 /\ df[c].Services_PMI.v = 51)
            /\ (c \in DOMAIN pmi_data) =>
                  /\ df[c].Manufacturing_PMI.v = pmi_data[c].Manufacturing_PMI
                  /\ df[c].Services_PMI.v = pmi_data[c].Services_PMI
            /\ (c \notin DOMAIN pmi_data) =>
                  (df[c].Manufacturing_PMI.v = 50 /\ df[c].Services_PMI.v = 50)

C5_Witness ==
    /\ pc = "score"
    /\ DOMAIN df = {"United States", "France"}
    /\ df["France"].Manufacturing_PMI = Num(50)
    /\ df["United States"].Services_PMI = Num(51)

\* C6: when the scorer runs, every row has non-null values for all five indicators
\* and both PMI attributes.
C6_AllPopulatedAtScoring ==
    pc = "score" =>
        \A c \in DOMAIN df : \A col \in IndicatorCols \cup PMICols : ~df[c][col].nan

\* C7: the merged table has one row for every country of at least one mapping; a
\* country missing from a mapping has a null in that field, keeps its row, and gets a
\* NaN Risk_Score.
C7_OuterMergeNaN ==
    pc \in {"pmi", "score", "classify", "done"} =>
        /\ DOMAIN df = {c \in Countries : \E m \in Metrics : c \in DOMAIN data_dict[m]}
        /\ \A c \in DOMAIN df : \A m \in Metrics :
              /\ (c \notin DOMAIN data_dict[m]) => df[c][m].nan
              /\ (c \in DOMAIN data_dict[m]) => df[c][m] = data_dict[m][c]
              /\ (c \notin DOMAIN data_dict[m] /\ pc \in {"classify", "done"}) =>
                    df[c].Risk_Score.nan

C7_Witness ==
    /\ pc = "classify"
    /\ \E c \in DOMAIN df :
          /\ c \notin DOMAIN data_dict["Inflation_Rate"]
          /\ c \in DOMAIN data_dict["GDP_Growth"]
          /\ df[c].Inflation_Rate.nan
          /\ df[c].Risk_Score.nan

\* C8: fetch_indicator returns exactly the countries whose reported value is not
\* null, each with that value; a country reported as null is absent.
C8_FetchDropsNull ==
    pc = "fetched" =>
        /\ DOMAIN ret[1] = {arg[i].country.value : i \in {j \in DOMAIN arg : arg[j].value # None}}
        /\ \A i \in DOMAIN arg :
              /\ (arg[i].value # None) => ret[1][arg[i].country.value] = Num(arg[i].value[1])
              /\ (arg[i].value = None) => arg[i].country.value \notin DOMAIN ret[1]

C8_Witness ==
    /\ pc = "fetched"
    /\ \E i, j \in DOMAIN arg :
          /\ arg[i].value = None
          /\ arg[j].value # None
          /\ DOMAIN ret[1] = {arg[j].country.value}

\* what one step of the populated table may change
C9_StepFrame ==
    /\ DOMAIN df' = DOMAIN df
    /\ \A c \in DOMAIN df :
          /\ \A col \in IndicatorCols \cup PMICols : df'[c][col] = df[c][col]
          /\ ("Risk_Score" \in DOMAIN df[c]) => df'[c].Risk_Score = df[c].Risk_Score
          /\ ("Risk_Level" \in DOMAIN df[c]) => df'[c].Risk_Level = df[c].Risk_Level
          /\ ("Risk_Level" \in DOMAIN df'[c]) => "Risk_Score" \in DOMAIN df[c]
          /\ (pc = "score") => ("Risk_Score" \notin DOMAIN df[c] /\ "Risk_Score" \in DOMAIN df'[c])
          /\ (pc = "classify") => ("Risk_Level" \notin DOMAIN df[c] /\ "Risk_Level" \in DOMAIN df'[c])
          /\ ("Risk_Score" \in DOMAIN df'[c]) => compute_risk(df'[c]) = df'[c].Risk_Score
          /\ ("Risk_Level" \in DOMAIN df'[c]) => classify_risk(df'[c].Risk_Score) = df'[c].Risk_Level

\* C9: once the rows are populated, scoring and classification keep the rows, the
\* country key, the five indicators and the two PMI values; Risk_Score is written
\* once, before Risk_Level, and both are what re-running compute_risk and
\* classify_risk on the row gives.
C9_DerivedOnly == [][(pc \in {"score", "classify", "done"}) => C9_StepFrame]_vars

C9_Witness ==
    /\ pc = "done"
    /\ \E c \in DOMAIN df :
          /\ ~df[c].Risk_Score.nan
          /\ df[c].Risk_Level \in Labels

\* C10: a NaN Risk_Score fails every comparison of classify_risk, so every country
\* missing at least one of the five indicators ends with Risk_Level Very_High.
C10_NaNVeryHigh ==
    pc = "done" =>
        \A c \in DOMAIN df :
            (\E m \in Metrics : c \notin DOMAIN data_dict[m]) =>
                /\ df[c].Risk_Score.nan
                /\ df[c].Risk_Level = "Very_High"

C10_Witness ==
    /\ pc = "done"
    /\ \E c \in DOMAIN df :
          /\ c \notin DOMAIN data_dict["FX_Reserves"]
          /\ \A m \in Metrics \ {"FX_Reserves"} : c \in DOMAIN data_dict[m]
          /\ df[c].Risk_Level = "Very_High"

====
